---- MODULE Spec2Model ----
(***************************************************************************)
(* altair_transform/utils/timeunit.py: conversion between pandas datetimes *)
(* and javascript timestamps, and evaluation of the timeUnit transform.    *)
(*                                                                         *)
(* A wall-clock reading is a pair [day, ms]: day counts the days since     *)
(* 1970-01-01 and ms the milliseconds since midnight; it stands for the    *)
(* number day * 86400000 + ms, which does not fit TLC's 32-bit integers.   *)
(* A pandas datetime value is a record [kind, tz, vals]: kind is           *)
(* "Timestamp", "DatetimeIndex" or "Series", tz is "naive" or the name of  *)
(* a zone, vals is the sequence of wall-clock readings in that zone.  A    *)
(* raised exception is a value of kind "error".  The process local zone    *)
(* (tzlocal()) is a fixed offset from UTC, chosen once in Init.            *)
(***************************************************************************)
EXTENDS Integers, Sequences, FiniteSets, TLC

VARIABLES tzlocal, op, date, timeunit, flags, parseResult, out, out2

vars == <<tzlocal, op, date, timeunit, flags, parseResult, out, out2>>

----------------------------------------------------------------------------
(* Bounds of the model *)

MaxSeqLen == 2
MaxPieces == 2

----------------------------------------------------------------------------
(* Calendar arithmetic of the datetime library *)

MsPerSecond == 1000
MsPerMinute == 60 * MsPerSecond
MsPerHour   == 60 * MsPerMinute
MsPerDay    == 24 * MsPerHour

\* Wall-clock reading w moved by delta milliseconds.
Shift(w, delta) ==
    [day |-> w.day + ((w.ms + delta) \div MsPerDay),
     ms  |-> (w.ms + delta) % MsPerDay]

\* Days since 1970-01-01 of the proleptic Gregorian date y-m-d.
DaysFromCivil(y, m, d) ==
    LET yy  == IF m <= 2 THEN y - 1 ELSE y
        era == yy \div 400
        yoe == yy - era * 400
        mp  == IF m > 2 THEN m - 3 ELSE m + 9
        doy == ((153 * mp + 2) \div 5) + d - 1
        doe == yoe * 365 + (yoe \div 4) - (yoe \div 100) + doy
    IN  era * 146097 + doe - 719468

\* The Gregorian date [year, month, day] of a day count.
CivilFromDays(z0) ==
    LET z   == z0 + 719468
        era == z \div 146097
        doe == z - era * 146097
        yoe == (doe - (doe \div 1460) + (doe \div 36524) - (doe \div 146096)) \div 365
        doy == doe - (365 * yoe + (yoe \div 4) - (yoe \div 100))
        mp  == (5 * doy + 2) \div 153
        d   == doy - ((153 * mp + 2) \div 5) + 1
        m   == IF mp < 10 THEN mp + 3 ELSE mp - 9
    IN  [year |-> IF m <= 2 THEN yoe + era * 400 + 1 ELSE yoe + era * 400,
         month |-> m, day |-> d]

IsLeap(y) == (y % 4 = 0) /\ ((y % 100 # 0) \/ (y % 400 = 0))

DaysInMonth(y, m) ==
    IF m = 2 THEN (IF IsLeap(y) THEN 29 ELSE 28)
    ELSE IF m \in {4, 6, 9, 11} THEN 30 ELSE 31

\* The field accessors of a datetime (date.year, date.month, ...).
year(w)        == CivilFromDays(w.day).year
month(w)       == CivilFromDays(w.day).month
day(w)         == CivilFromDays(w.day).day
hour(w)        == w.ms \div MsPerHour
minute(w)      == (w.ms % MsPerHour) \div MsPerMinute
second(w)      == (w.ms % MsPerMinute) \div MsPerSecond
microsecond(w) == (w.ms % MsPerSecond) * 1000
\* Monday is 0, Sunday is 6; 1970-01-01 was a Thursday.
dayofweek(w)   == (w.day + 3) % 7

----------------------------------------------------------------------------
(* Time zones *)

\* A zone other than UTC and the local one that an input may be tagged with.
OtherOffset == 9 * MsPerHour

utcoffset(z, local) ==
    CASE z = "UTC"   -> 0
      [] z = "local" -> local
      [] z = "other" -> OtherOffset

\* date.tz_localize(zone): the wall clock is kept and the tag is set.
tz_localize(d, zone) == [d EXCEPT !.tz = zone]

\* date.tz_convert(zone): the same instants, read on the clock of zone.
tz_convert(d, zone, local) ==
    [d EXCEPT !.tz = zone,
              !.vals = [i \in 1..Len(d.vals) |->
                          Shift(d.vals[i],
                                utcoffset(zone, local) - utcoffset(d.tz, local))]]

----------------------------------------------------------------------------
(* Values and exceptions *)

Value(kind, tz, vals) == [kind |-> kind, tz |-> tz, vals |-> vals, err |-> "none"]

Raise(e) == [kind |-> "error", tz |-> "naive", vals |-> <<>>, err |-> e]

NoValue == [kind |-> "none", tz |-> "naive", vals |-> <<>>, err |-> "none"]

----------------------------------------------------------------------------
(* TimestampConverter *)

\* date_to_timestamp reading a naive date as UTC instead of local time.
date_to_timestamp_naive_utc(d, local) ==
    LET localized == IF d.tz = "naive" THEN tz_localize(d, "UTC") ELSE d
        epoch == [i \in 1..Len(localized.vals) |->
                    Shift(localized.vals[i], 0 - utcoffset(localized.tz, local))]
    IN  Value(IF d.kind = "Timestamp" THEN "float" ELSE "floats", "naive", epoch)

\* date_to_timestamp: the UTC epoch milliseconds of a Timestamp (a float) or
\* of a DatetimeIndex (an array of floats); a naive date is local time.
date_to_timestamp(d, local) ==
    LET localized == IF d.tz = "naive" THEN tz_localize(d, "local") ELSE d
        epoch == [i \in 1..Len(localized.vals) |->
                    Shift(localized.vals[i], 0 - utcoffset(localized.tz, local))]
    IN  Value(IF d.kind = "Timestamp" THEN "float" ELSE "floats", "naive", epoch)

\* timestamp_to_date testing the flag tz before the flag utc.
timestamp_to_date_tz_first(timestamp, tz, utc, local) ==
    LET dates == tz_localize(
                    Value(IF timestamp.kind = "float" THEN "Timestamp"
                                                      ELSE "DatetimeIndex",
                          "naive", timestamp.vals),
                    "UTC")
    IN  IF tz THEN tz_convert(dates, "local", local)
        ELSE IF utc THEN dates
        ELSE tz_localize(tz_convert(dates, "local", local), "naive")

\* timestamp_to_date(timestamp, tz, utc), tz and utc being the two flags.
timestamp_to_date(timestamp, tz, utc, local) ==
    LET dates == tz_localize(
                    Value(IF timestamp.kind = "float" THEN "Timestamp"
                                                      ELSE "DatetimeIndex",
                          "naive", timestamp.vals),
                    "UTC")
    IN  IF utc THEN dates
        ELSE IF tz THEN tz_convert(dates, "local", local)
        ELSE tz_localize(tz_convert(dates, "local", local), "naive")

----------------------------------------------------------------------------
(* TimeUnitSpecParser: a timeUnit string is a sequence of characters *)

_simple_timeunits ==
    <<"utc", "year", "quarter", "month", "day", "date",
      "hours", "minutes", "seconds", "milliseconds">>

\* The characters of each name of _simple_timeunits.
Chars ==
    [utc          |-> <<"u", "t", "c">>,
     year         |-> <<"y", "e", "a", "r">>,
     quarter      |-> <<"q", "u", "a", "r", "t", "e", "r">>,
     month        |-> <<"m", "o", "n", "t", "h">>,
     day          |-> <<"d", "a", "y">>,
     date         |-> <<"d", "a", "t", "e">>,
     hours        |-> <<"h", "o", "u", "r", "s">>,
     minutes      |-> <<"m", "i", "n", "u", "t", "e", "s">>,
     seconds      |-> <<"s", "e", "c", "o", "n", "d", "s">>,
     milliseconds |-> <<"m", "i", "l", "l", "i", "s", "e", "c", "o", "n", "d", "s">>]

startswith(s, prefix) ==
    /\ Len(prefix) <= Len(s)
    /\ SubSeq(s, 1, Len(prefix)) = prefix

\* '$' without re.MULTILINE: the end of the string, or just before a newline
\* that ends the string.
AtEnd(s) == s = <<>> \/ s = <<"\n">>

\* _timeunit_regex.match from group i on the rest s of the string: the groups
\* are optional and greedy, and the matcher backtracks over each of them.
RECURSIVE RegexMatch(_, _)
RegexMatch(i, s) ==
    IF i > Len(_simple_timeunits)
    THEN [ok |-> AtEnd(s), groups |-> {}]
    ELSE LET name  == _simple_timeunits[i]
             taken == IF startswith(s, Chars[name])
                      THEN RegexMatch(i + 1, SubSeq(s, Len(Chars[name]) + 1, Len(s)))
                      ELSE [ok |-> FALSE, groups |-> {}]
         IN  IF taken.ok
             THEN [ok |-> TRUE, groups |-> taken.groups \cup {name}]
             ELSE RegexMatch(i + 1, s)

\* _parse_timeunit_string: the set of names whose group matched, or ValueError.
_parse_timeunit_string(s) ==
    LET match == RegexMatch(1, s)
    IN  IF ~match.ok
        THEN [err |-> "ValueError: Unrecognized timeUnit", units |-> {}]
        ELSE [err |-> "none", units |-> match.groups]

----------------------------------------------------------------------------
(* Text of the calendar components, and its parsing by pd.to_datetime *)

\* str(n) for n >= 0, as a sequence of decimal digits.
RECURSIVE str(_)
str(n) == IF n < 10 THEN <<n>> ELSE Append(str(n \div 10), n % 10)

\* s.zfill(width)
RECURSIVE zfill(_, _)
zfill(s, width) == IF Len(s) >= width THEN s ELSE zfill(<<0>> \o s, width)

\* The integer that a sequence of decimal digits denotes.
RECURSIVE int(_)
int(s) == IF s = <<>> THEN 0 ELSE 10 * int(SubSeq(s, 1, Len(s) - 1)) + s[Len(s)]

\* The milliseconds of the digits that follow the decimal point of the seconds.
RECURSIVE fraction(_)
fraction(s) == IF Len(s) >= 3 THEN int(SubSeq(s, 1, 3)) ELSE fraction(Append(s, 0))

\* month - (month - 1) % 3
quarter(m) == m - ((m - 1) % 3)

\* The seven pieces of text that _compute_timeunit joins for one element w.
Y(units, w)  == IF "year" \in units THEN str(year(w)) ELSE <<1, 9, 0, 0>>
M(units, w)  == IF "month" \in units THEN zfill(str(month(w)), 2)
                ELSE IF "quarter" \in units THEN zfill(str(quarter(month(w))), 2)
                ELSE <<0, 1>>
D(units, w)  == IF "date" \in units THEN zfill(str(day(w)), 2) ELSE <<0, 1>>
h(units, w)  == IF "hours" \in units THEN zfill(str(hour(w)), 2) ELSE <<0, 0>>
m(units, w)  == IF "minutes" \in units THEN zfill(str(minute(w)), 2) ELSE <<0, 0>>
s(units, w)  == IF "seconds" \in units THEN zfill(str(second(w)), 2) ELSE <<0, 0>>
ms(units, w) == IF "milliseconds" \in units
                THEN zfill(str(microsecond(w) \div 1000), 3) ELSE <<0, 0>>

\* The joined text is one string per element when at least one piece is read
\* from the date, and a single string when every piece is a literal.
Elementwise(units) ==
    units \cap {"year", "month", "quarter", "date", "hours", "minutes",
                "seconds", "milliseconds"} # {}

\* pd.to_datetime of 'Y-M-D h:m:s.ms': the date must exist in the calendar.
ValidText(t) ==
    /\ int(t.M) \in 1..12
    /\ int(t.D) \in 1..DaysInMonth(int(t.Y), int(t.M))

to_datetime(t) ==
    [day |-> DaysFromCivil(int(t.Y), int(t.M), int(t.D)),
     ms  |-> int(t.h) * MsPerHour + int(t.m) * MsPerMinute
             + int(t.s) * MsPerSecond + fraction(t.ms)]

----------------------------------------------------------------------------
(* TimeUnitEvaluator *)

day_names == {Chars["day"], Chars["utc"] \o Chars["day"]}

\* pd.to_datetime('2006-01-01')
Anchor == to_datetime([Y |-> <<2, 0, 0, 6>>, M |-> <<0, 1>>, D |-> <<0, 1>>,
                       h |-> <<0, 0>>, m |-> <<0, 0>>, s |-> <<0, 0>>,
                       ms |-> <<0>>])

\* The offset without the shift of the week's first day.
DayOffsetUnshifted(w) == dayofweek(w) % 7

\* (date.dayofweek + 1) % 7
DayOffset(w) == (dayofweek(w) + 1) % 7

\* The test for 'day' left out.
HasDayIgnored(units) == FALSE

\* 'day' in units
HasDay(units) == "day" \in units

\* The test for an empty set left out.
NoUnitsIgnored(units) == FALSE

\* not units
NoUnits(units) == units = {}

\* _compute_timeunit(name, date) on the array-like date.
_compute_timeunit(name, d) ==
    IF name \in day_names
    THEN Value("DatetimeIndex", "naive",
               [i \in 1..Len(d.vals) |->
                  [Anchor EXCEPT !.day = Anchor.day + DayOffset(d.vals[i])]])
    ELSE
    LET parse == _parse_timeunit_string(name)
        units  == parse.units
        text   == [i \in 1..Len(d.vals) |->
                     [Y |-> Y(units, d.vals[i]), M |-> M(units, d.vals[i]),
                      D |-> D(units, d.vals[i]), h |-> h(units, d.vals[i]),
                      m |-> m(units, d.vals[i]), s |-> s(units, d.vals[i]),
                      ms |-> ms(units, d.vals[i])]]
        literal == [Y |-> Y(units, Anchor), M |-> M(units, Anchor),
                    D |-> D(units, Anchor), h |-> h(units, Anchor),
                    m |-> m(units, Anchor), s |-> s(units, Anchor),
                    ms |-> ms(units, Anchor)]
    IN  IF parse.err # "none" THEN Raise(parse.err)
        ELSE IF HasDay(units) THEN Raise("NotImplementedError: quarter and day timeunit")
        ELSE IF NoUnits(units) THEN Raise("ValueError: not a recognized timeunit")
        ELSE IF ~Elementwise(units)
             THEN Value("Timestamp", "naive", <<to_datetime(literal)>>)
        ELSE IF \E i \in 1..Len(text) : ~ValidText(text[i])
             THEN Raise("ValueError: day is out of range for month")
        ELSE Value("DatetimeIndex", "naive",
                   [i \in 1..Len(text) |-> to_datetime(text[i])])

\* compute_timeunit(date, timeunit)
compute_timeunit(d, name, local) ==
    LET localized == IF d.tz = "naive" THEN tz_localize(d, "local") ELSE d
        timezone  == IF startswith(name, Chars["utc"]) THEN "UTC" ELSE "local"
        converted == tz_convert(localized, timezone, local)
        r         == _compute_timeunit(name, converted)
    IN  IF r.kind = "error" THEN r
        ELSE IF d.kind = "Series"
             THEN Value("Series", r.tz, r.vals)
        ELSE IF d.kind = "Timestamp"
             THEN (IF r.kind = "Timestamp"
                   THEN Raise("TypeError: 'Timestamp' object is not subscriptable")
                   ELSE Value("Timestamp", r.tz, <<r.vals[1]>>))
        ELSE r

----------------------------------------------------------------------------
(* Inputs *)

\* Offsets from UTC that the process local zone may have.
LocalOffsets == {0 - 8 * MsPerHour, 0, 5 * MsPerHour + 30 * MsPerMinute}

Zones == {"naive", "UTC", "local", "other"}

Wall(y, mo, d, hh, mi, ss, mmm) ==
    [day |-> DaysFromCivil(y, mo, d),
     ms  |-> hh * MsPerHour + mi * MsPerMinute + ss * MsPerSecond + mmm]

\* The first and the last day of every month of the leap year 2020, and three
\* days of 2021.
SampleDays ==
    UNION {{<<2020, mo, 1>>, <<2020, mo, DaysInMonth(2020, mo)>>} : mo \in 1..12}
    \cup {<<2021, 1, 1>>, <<2021, 7, 15>>, <<2021, 12, 31>>}

SampleTimes == {<<0, 30, 7, 5>>, <<13, 45, 30, 250>>, <<23, 59, 59, 999>>}

SampleWalls ==
    {Wall(dd[1], dd[2], dd[3], tt[1], tt[2], tt[3], tt[4]) :
        dd \in SampleDays, tt \in SampleTimes}

SeriesWalls ==
    {Wall(2020, 2, 29, 13, 45, 30, 250), Wall(2021, 7, 15, 13, 45, 30, 250),
     Wall(2021, 1, 1, 0, 30, 7, 5), Wall(2020, 12, 31, 23, 59, 59, 999)}

Timestamps == {Value("Timestamp", z, <<w>>) : z \in Zones, w \in SampleWalls}

Sequences == UNION {[1..n -> SeriesWalls] : n \in 0..MaxSeqLen}

Arrays ==
    {Value(k, z, ws) : k \in {"DatetimeIndex", "Series"}, z \in Zones,
                       ws \in Sequences}

\* Epoch milliseconds, as a float or an array of floats.
Numbers ==
    {Value("float", "naive", <<w>>) : w \in SampleWalls}
    \cup {Value("floats", "naive", ws) : ws \in Sequences}

\* Strings of characters
RECURSIVE Flatten(_)
Flatten(ps) == IF ps = <<>> THEN <<>> ELSE Head(ps) \o Flatten(Tail(ps))

Names == {_simple_timeunits[i] : i \in 1..Len(_simple_timeunits)}

\* The names of S joined in the order of _simple_timeunits.
RECURSIVE JoinFrom(_, _)
JoinFrom(i, S) ==
    IF i > Len(_simple_timeunits) THEN <<>>
    ELSE (IF _simple_timeunits[i] \in S THEN Chars[_simple_timeunits[i]] ELSE <<>>)
         \o JoinFrom(i + 1, S)

Join(S) == JoinFrom(1, S)

Selections == {Join(S) : S \in SUBSET Names}

Pieces == {Chars[n] : n \in Names} \cup {<<"x">>, <<"\n">>}

PieceStrings == {Flatten(ps) : ps \in UNION {[1..n -> Pieces] : n \in 0..MaxPieces}}

banana == <<"b", "a", "n", "a", "n", "a">>

Strings == Selections \cup PieceStrings \cup {banana}

\* The time units of the visualization grammar, local and utc.
GrammarUnits ==
    {{"year"}, {"quarter"}, {"month"}, {"day"}, {"date"}, {"hours"}, {"minutes"},
     {"seconds"}, {"milliseconds"}, {"year", "quarter"},
     {"year", "quarter", "month"}, {"year", "month"}, {"year", "month", "date"},
     {"year", "month", "date", "hours"},
     {"year", "month", "date", "hours", "minutes"},
     {"year", "month", "date", "hours", "minutes", "seconds"},
     {"quarter", "month"}, {"month", "date"}, {"hours", "minutes"},
     {"hours", "minutes", "seconds"}, {"minutes", "seconds"},
     {"seconds", "milliseconds"}}

GrammarStrings ==
    {Join(S) : S \in GrammarUnits} \cup {Join(S \cup {"utc"}) : S \in GrammarUnits}

SeriesStrings ==
    {Join(S) : S \in {{"utc"}, {"year"}, {"utc", "year"}, {"day"}, {"utc", "day"},
                      {"month", "date"}, {"year", "quarter"}, {"year", "day"},
                      {"hours", "minutes"}, {"utc", "seconds", "milliseconds"}, {}}}
    \cup {banana}

FewDates ==
    {Value("Timestamp", "naive", <<Wall(2021, 7, 15, 13, 45, 30, 250)>>),
     Value("Timestamp", "UTC", <<Wall(2020, 2, 29, 23, 59, 59, 999)>>)}

ComputeInputs ==
    (Timestamps \X GrammarStrings) \cup (Arrays \X SeriesStrings)
    \cup (FewDates \X Strings)

Flags == [tz : BOOLEAN, utc : BOOLEAN]

DefaultFlags == [tz |-> FALSE, utc |-> FALSE]

NotParsed == [err |-> "none", units |-> {}]

----------------------------------------------------------------------------
(* The operations.  The functions keep no state between calls: a behaviour is *)
(* one call on inputs drawn from the sets above, followed, for the two       *)
(* compositions, by a call on its result.                                    *)

Init ==
    /\ tzlocal \in LocalOffsets
    /\ op = "init"
    /\ date = NoValue
    /\ timeunit = <<>>
    /\ flags = DefaultFlags
    /\ parseResult = NotParsed
    /\ out = NoValue
    /\ out2 = NoValue

DateToTimestamp ==
    /\ op = "init"
    /\ \E d \in Timestamps \cup {a \in Arrays : a.kind = "DatetimeIndex"} :
        /\ op' = "date_to_timestamp"
        /\ date' = d
        /\ out' = date_to_timestamp(d, tzlocal)
        /\ timeunit' = <<>>
        /\ flags' = DefaultFlags
        /\ parseResult' = NotParsed
        /\ out2' = NoValue
        /\ UNCHANGED tzlocal

TimestampToDate ==
    /\ op = "init"
    /\ \E t \in Numbers, f \in Flags :
        /\ op' = "timestamp_to_date"
        /\ date' = t
        /\ flags' = f
        /\ out' = timestamp_to_date(date', f.tz, f.utc, tzlocal)
        /\ timeunit' = <<>>
        /\ parseResult' = NotParsed
        /\ out2' = NoValue
        /\ UNCHANGED tzlocal

\* timestamp_to_date applied to the number that date_to_timestamp returned.
TimestampToDateOfResult ==
    /\ op = "date_to_timestamp"
    /\ \E f \in Flags :
        /\ op' = "round_trip"
        /\ flags' = f
        /\ out2' = timestamp_to_date(out, f.tz, f.utc, tzlocal)
        /\ UNCHANGED <<tzlocal, date, timeunit, parseResult, out>>

ComputeTimeunit ==
    /\ op = "init"
    /\ \E in \in ComputeInputs :
        /\ op' = "compute_timeunit"
        /\ date' = in[1]
        /\ timeunit' = in[2]
        /\ out' = compute_timeunit(in[1], in[2], tzlocal)
        /\ flags' = DefaultFlags
        /\ parseResult' = NotParsed
        /\ out2' = NoValue
        /\ UNCHANGED tzlocal

\* compute_timeunit applied, with the same timeunit, to the value it returned.
ComputeTimeunitOfResult ==
    /\ op = "compute_timeunit"
    /\ out.kind # "error"
    /\ op' = "compute_timeunit_again"
    /\ out2' = compute_timeunit(out, timeunit, tzlocal)
    /\ UNCHANGED <<tzlocal, date, timeunit, flags, parseResult, out>>

ParseTimeunitString ==
    /\ op = "init"
    /\ \E str0 \in Strings :
        /\ op' = "parse"
        /\ timeunit' = str0
        /\ parseResult' = _parse_timeunit_string(str0)
        /\ date' = NoValue
        /\ flags' = DefaultFlags
        /\ out' = NoValue
        /\ out2' = NoValue
        /\ UNCHANGED tzlocal

Next ==
    \/ DateToTimestamp
    \/ TimestampToDate
    \/ TimestampToDateOfResult
    \/ ComputeTimeunit
    \/ ComputeTimeunitOfResult
    \/ ParseTimeunitString

Spec == Init /\ [][Next]_vars

----------------------------------------------------------------------------
(* Notions the properties are stated in *)

\* The zone a value is read in: a naive value is local time.
ZoneOf(v) == IF v.tz = "naive" THEN "local" ELSE v.tz

\* The UTC epoch reading of element i of a datetime value.
Epoch(v, i) == Shift(v.vals[i], 0 - utcoffset(ZoneOf(v), tzlocal))

\* Two readings at most one millisecond apart.
Within1ms(a, b) ==
    /\ a.day - b.day \in -1..1
    /\ (a.day - b.day) * MsPerDay + (a.ms - b.ms) \in -1..1

utc_name == startswith(timeunit, Chars["utc"])

\* The zone whose calendar the timeunit selects.
CalendarZone == IF utc_name THEN "UTC" ELSE "local"

\* Element i of the input, read on the calendar the timeunit selects.
OnCalendar(i) == Shift(Epoch(date, i), utcoffset(CalendarZone, tzlocal))

\* The valid specs: the non-empty selections, 'day' only on its own or after 'utc'.
ValidUnits ==
    {S \in SUBSET Names : S # {} /\ ("day" \in S => S \subseteq {"utc", "day"})}

ValidStrings == {Join(S) : S \in ValidUnits}

SpecTable == {<<Join(S), S>> : S \in ValidUnits}

UnitsOf(str0) == (CHOOSE p \in SpecTable : p[1] = str0)[2]

\* The non-empty selections, alone or followed by a newline.
NonEmptyMatches ==
    {Join(S) : S \in SUBSET Names \ {{}}}
    \cup {Append(Join(S), "\n") : S \in SUBSET Names \ {{}}}

Returned == op = "compute_timeunit" /\ out.kind # "error"

\* The seven components that the spec prescribes for units S and reading w.
Expected(S, w) ==
    [year   |-> IF "year" \in S THEN year(w) ELSE 1900,
     month  |-> IF "month" \in S THEN month(w)
                ELSE IF "quarter" \in S THEN month(w) - ((month(w) - 1) % 3)
                ELSE 1,
     day    |-> IF "date" \in S THEN day(w) ELSE 1,
     hour   |-> IF "hours" \in S THEN hour(w) ELSE 0,
     minute |-> IF "minutes" \in S THEN minute(w) ELSE 0,
     second |-> IF "seconds" \in S THEN second(w) ELSE 0,
     millisecond |-> IF "milliseconds" \in S THEN w.ms % MsPerSecond ELSE 0]

Components(w) ==
    [year |-> year(w), month |-> month(w), day |-> day(w), hour |-> hour(w),
     minute |-> minute(w), second |-> second(w),
     millisecond |-> w.ms % MsPerSecond]

ContainsDay(str0) ==
    \E i \in 1..Len(str0) : startswith(SubSeq(str0, i, Len(str0)), Chars["day"])

----------------------------------------------------------------------------
(* Properties *)

\* C1: compute_timeunit is idempotent: applied with the same timeunit to the
\* value it returned, it returns that value again.
Idempotent ==
    op = "compute_timeunit_again" /\ timeunit \in ValidStrings => out2 = out

\* C2: with the default flags, timestamp_to_date(date_to_timestamp(T)) is the
\* instant T to within one millisecond, for T naive or tagged with any zone,
\* and it is T itself when T is naive.
RoundTrip ==
    op = "round_trip" /\ flags = DefaultFlags =>
        /\ Len(out2.vals) = Len(date.vals)
        /\ \A i \in 1..Len(date.vals) : Within1ms(Epoch(out2, i), Epoch(date, i))
        /\ date.tz = "naive" => out2.tz = "naive" /\ out2.vals = date.vals

RoundTripWitness ==
    /\ op = "round_trip" /\ flags = DefaultFlags
    /\ date.tz = "other" /\ tzlocal # 0 /\ date.kind = "Timestamp"
    /\ out2.vals # date.vals

\* C3: the bucket that compute_timeunit returns for a Timestamp is the instant
\* whose reading, in the zone of the calendar the timeunit selects (UTC when it
\* begins with utc, the local zone otherwise), has the components taken from
\* that calendar.
BucketInCalendarZone ==
    Returned /\ date.kind = "Timestamp" /\ timeunit \in ValidStrings
             /\ timeunit \notin day_names =>
        /\ Components(out.vals[1]) = Expected(UnitsOf(timeunit), OnCalendar(1))
        /\ Components(Shift(Epoch(out, 1), utcoffset(CalendarZone, tzlocal)))
             = Expected(UnitsOf(timeunit), OnCalendar(1))

\* C4 as stated: the date that day and utcday count the offset from is a Monday.
DayAnchoredAtMonday ==
    Returned /\ timeunit \in day_names =>
        \A i \in 1..Len(out.vals) :
            (out.vals[i].day - ((dayofweek(OnCalendar(i)) + 1) % 7) + 3) % 7 = 0

\* C4: for day and utcday the output depends on the weekday of the input alone,
\* in the calendar the timeunit selects: it is midnight of 2006-01-01, a
\* Sunday, advanced by (weekday + 1) mod 7 days, so it is one of the seven days
\* 2006-01-01 .. 2006-01-07 and falls on the weekday of the input.
DayAnchoring ==
    Returned /\ timeunit \in day_names =>
        /\ out.tz = "naive" /\ out.kind = date.kind
        /\ Len(out.vals) = Len(date.vals)
        /\ \A i \in 1..Len(out.vals) :
            /\ out.vals[i].ms = 0
            /\ out.vals[i].day - DaysFromCivil(2006, 1, 1)
                 = (dayofweek(OnCalendar(i)) + 1) % 7
            /\ (DaysFromCivil(2006, 1, 1) + 3) % 7 = 6
            /\ (out.vals[i].day + 3) % 7 = dayofweek(OnCalendar(i))
        /\ \A i, j \in 1..Len(out.vals) :
            dayofweek(OnCalendar(i)) = dayofweek(OnCalendar(j))
                => out.vals[i] = out.vals[j]

DayAnchoringWitness ==
    /\ Returned /\ timeunit = Chars["utc"] \o Chars["day"]
    /\ Len(date.vals) = 2
    /\ date.vals[1] # date.vals[2] /\ out.vals[1] = out.vals[2]
    /\ dayofweek(OnCalendar(1)) # dayofweek(date.vals[1])

\* C5: for a valid spec other than day and utcday, compute_timeunit returns for
\* a Timestamp a Timestamp whose seven components are those of the input where
\* the token is in the spec and 1900, 1, 1, 0, 0, 0, 0 where it is not, the
\* month being the first of its quarter for quarter without month.
DefaultSubstitution ==
    /\ op = "compute_timeunit" /\ date.kind = "Timestamp"
    /\ timeunit \in ValidStrings /\ timeunit \notin day_names
    =>
    /\ out.kind = "Timestamp"
    /\ Components(out.vals[1]) = Expected(UnitsOf(timeunit), OnCalendar(1))

\* C6: _parse_timeunit_string succeeds exactly on the selections of the names
\* joined in the order of _simple_timeunits, and returns the selected names.
ParsesExactlySelections ==
    op = "parse" =>
        /\ (parseResult.err = "none") <=> (timeunit \in Selections)
        /\ parseResult.err = "none" => Join(parseResult.units) = timeunit

\* C7: a timeunit that contains day and is neither day nor utcday makes
\* compute_timeunit raise the error of the grammar or that of the unsupported
\* combination; it never returns a value.
DayCombinationRejected ==
    op = "compute_timeunit" /\ ContainsDay(timeunit) /\ timeunit \notin day_names =>
        /\ out.kind = "error"
        /\ out.err \in {"ValueError: Unrecognized timeUnit",
                        "NotImplementedError: quarter and day timeunit"}

DayCombinationWitness ==
    /\ op = "compute_timeunit"
    /\ timeunit = Join({"year", "day"})
    /\ out.err = "NotImplementedError: quarter and day timeunit"

\* C8: for an array-like input and a valid spec, compute_timeunit returns an
\* array of the same kind and length whose i-th element is what it returns
\* for the i-th element alone.
ShapePreserved ==
    /\ op = "compute_timeunit" /\ date.kind \in {"Series", "DatetimeIndex"}
    /\ timeunit \in ValidStrings
    =>
    /\ out.kind = date.kind
    /\ Len(out.vals) = Len(date.vals)
    /\ \A i \in 1..Len(date.vals) :
         <<out.vals[i]>>
           = compute_timeunit(Value("Timestamp", date.tz, <<date.vals[i]>>),
                              timeunit, tzlocal).vals

FlagsSelectZone ==
    op = "timestamp_to_date" =>
        /\ out.kind = (IF date.kind = "float" THEN "Timestamp" ELSE "DatetimeIndex")
        /\ Len(out.vals) = Len(date.vals)
        /\ out.tz = (IF flags.utc THEN "UTC" ELSE IF flags.tz THEN "local" ELSE "naive")
        /\ \A i \in 1..Len(out.vals) :
            /\ Epoch(out, i) = date.vals[i]
            /\ out.vals[i] = Shift(date.vals[i], IF flags.utc THEN 0 ELSE tzlocal)

FlagsSelectZoneWitness ==
    /\ op = "timestamp_to_date" /\ flags.utc /\ flags.tz
    /\ tzlocal # 0 /\ out.tz = "UTC" /\ Len(out.vals) = 2

====
